---- MODULE Spec2Model ----
(***************************************************************************)
(* Entmax kernels of batch_entmax_gaussian_kernels.py: the generic         *)
(* EntmaxGaussian1DKernel and its five families (Uniform, Gaussian,        *)
(* Sparsemax, Biweight, Triweight), their parameters, their escort         *)
(* kernels and the expectations attention and attention_gradient are       *)
(* built from.                                                             *)
(*                                                                         *)
(* Numbers are floating-point numbers with MantissaBits bits of precision, *)
(* rounded to nearest (ties to even) after every arithmetic operation, as  *)
(* Python floats and torch tensors are; the exponent range is unbounded    *)
(* (no overflow, no underflow).  A number is a pair <<n, d>>, the fraction *)
(* n/d in lowest terms with d > 0.                                         *)
(***************************************************************************)
EXTENDS Integers, Sequences, FiniteSets, TLC

\* ------------------------------------------------------------------ bounds
MantissaBits == 4   \* precision of the floating-point format
BatchSize == 2      \* B, the length of mu
PsiDim == 2         \* P, the number of outputs of psi

\* ------------------------------------------------------- exact fractions
Abs(x) == IF x < 0 THEN -x ELSE x

RECURSIVE Gcd(_, _)
Gcd(a, b) == IF b = 0 THEN a ELSE Gcd(b, a % b)

RECURSIVE Pow2(_)
Pow2(k) == IF k <= 0 THEN 1 ELSE 2 * Pow2(k - 1)

\* n/d in lowest terms, d > 0
Reduce(n, d, g) == <<n \div g, d \div g>>
Sgn(d) == IF d < 0 THEN -1 ELSE 1
Rat(n, d) == Reduce(Sgn(d) * n, Sgn(d) * d, Gcd(Abs(n), Abs(d)))

Num(k) == <<k, 1>>
Zero == Num(0)
One == Num(1)
Two == Num(2)

\* x + y, g the gcd of the denominators
AddOver(x, y, g) ==
    Rat(x[1] * (y[2] \div g) + y[1] * (x[2] \div g), (x[2] \div g) * y[2])
RAdd(x, y) == AddOver(x, y, Gcd(x[2], y[2]))
RNeg(x) == <<-x[1], x[2]>>
RSub(x, y) == RAdd(x, RNeg(y))
\* x * y, g and h the gcds of a numerator and the other denominator
MulOver(x, y, g, h) ==
    <<(x[1] \div g) * (y[1] \div h), (x[2] \div h) * (y[2] \div g)>>
RMul(x, y) == MulOver(x, y, Gcd(Abs(x[1]), y[2]), Gcd(Abs(y[1]), x[2]))
RInv(y) == IF y[1] < 0 THEN <<-y[2], -y[1]>> ELSE <<y[2], y[1]>>
RDiv(x, y) == RMul(x, RInv(y))
RLe(x, y) == x[1] * y[2] <= y[1] * x[2]
RLt(x, y) == x[1] * y[2] < y[1] * x[2]

RECURSIVE RPow(_, _)
RPow(x, k) == IF k = 0 THEN One ELSE RMul(x, RPow(x, k - 1))

\* --------------------------------------------------------- floating point
\* the quotient q of a by d, remainder r, rounded to an integer, ties to even
RoundQuotient(q, r, d) ==
    IF 2 * r > d \/ (2 * r = d /\ q % 2 = 1) THEN q + 1 ELSE q

\* m * 2^k
Scaled(m, k) == IF k >= 0 THEN <<m * Pow2(k), 1>> ELSE Rat(m, Pow2(-k))

\* a/d * 2^k with a, d > 0, rounded to MantissaBits bits, ties to even
RECURSIVE RndAux(_, _, _)
RndAux(a, d, k) ==
    IF a >= d * Pow2(MantissaBits) THEN RndAux(a, 2 * d, k + 1)
    ELSE IF a < d * Pow2(MantissaBits - 1) THEN RndAux(2 * a, d, k - 1)
    ELSE Scaled(RoundQuotient(a \div d, a % d, d), k)

\* the floating-point number nearest to the fraction x
Rnd(x) ==
    IF x[1] = 0 THEN Zero
    ELSE IF x[1] < 0 THEN RNeg(RndAux(-x[1], x[2], 0))
    ELSE RndAux(x[1], x[2], 0)

\* x is a floating-point number: rounding leaves it as it is
Exact(x) == Rnd(x) = x

FAdd(x, y) == Rnd(RAdd(x, y))
FSub(x, y) == Rnd(RSub(x, y))
FMul(x, y) == Rnd(RMul(x, y))
FDiv(x, y) == Rnd(RDiv(x, y))
FNeg(x) == RNeg(x)

\* x ** k
FPow(x, k) == Rnd(RPow(x, k))

\* ------------------------------------------------------------------ values
\* an attribute that was never assigned, Python's None, math.inf, a number,
\* a tensor of BatchSize numbers, a reference to a kernel object of the heap
Unset == [t |-> "unset"]
None == [t |-> "none"]
Inf == [t |-> "inf"]
Scalar(x) == [t |-> "num", v |-> x]
Tensor(v) == [t |-> "tensor", v |-> v]
Matrix(v) == [t |-> "matrix", v |-> v]
Ref(i) == [t |-> "ref", id |-> i]
\* a value of the external distribution object that is not computed here
Ext(f, alpha, x) == [t |-> "ext", f |-> f, alpha |-> alpha, x |-> x]

Batch == 1..BatchSize
Cols == 1..PsiDim

\* elementwise tensor arithmetic
TMap1(Op(_), x) == Tensor([b \in Batch |-> Op(x.v[b])])
TMap2(Op(_, _), x, y) == Tensor([b \in Batch |-> Op(x.v[b], y.v[b])])
TScale(Op(_, _), x, c) == Tensor([b \in Batch |-> Op(x.v[b], c)])

\* ----------------------------------------------- the distribution objects
\* EntmaxGaussian1D and its families, imported from batch_entmax_gaussian:
\* the density is ((alpha-1)(-tau - (t-mu)^2/(2 sigma_sq)))^(1/(alpha-1)) on
\* [mu-a, mu+a], it vanishes at mu +- a and it has unit mass.
Families == {"Sparsemax", "Biweight", "Triweight"}

\* x / 2^k
ScaleDown(x, k) == IF k >= 0 THEN RDiv(x, Num(Pow2(k))) ELSE RMul(x, Num(Pow2(-k)))

\* the largest m in lo..hi with m^3 * den <= num (lo satisfies it)
RECURSIVE CubeFloor(_, _, _, _)
CubeFloor(m, hi, num, den) ==
    IF m < hi /\ (m + 1) * (m + 1) * (m + 1) * den <= num
    THEN CubeFloor(m + 1, hi, num, den) ELSE m

\* m or m + 1, the one nearer to the cube root of num/den
CubeNearest(m, num, den) ==
    IF (2 * m + 1) * (2 * m + 1) * (2 * m + 1) * den <= 8 * num THEN m + 1 ELSE m

\* the floating-point number nearest to the cube root of x > 0; s = x / 8^e
RECURSIVE CbrtAux(_, _)
CbrtStep(x, e, s, lo) ==
    IF RLt(s, Num(lo * lo * lo)) THEN CbrtAux(x, e - 1)
    ELSE IF RLe(Num(8 * lo * lo * lo), s) THEN CbrtAux(x, e + 1)
    ELSE Scaled(CubeNearest(CubeFloor(lo, 2 * lo - 1, s[1], s[2]), s[1], s[2]), e)
CbrtAux(x, e) == CbrtStep(x, e, ScaleDown(x, 3 * e), Pow2(MantissaBits - 1))
Cbrt(x) == CbrtAux(x, 0)

\* the largest m in lo..hi with m^2 * den <= num (lo satisfies it)
RECURSIVE SquareFloor(_, _, _, _)
SquareFloor(m, hi, num, den) ==
    IF m < hi /\ (m + 1) * (m + 1) * den <= num
    THEN SquareFloor(m + 1, hi, num, den) ELSE m

\* m or m + 1, the one nearer to the square root of num/den
SquareNearest(m, num, den) ==
    IF (2 * m + 1) * (2 * m + 1) * den <= 4 * num THEN m + 1 ELSE m

\* the floating-point number nearest to the square root of x > 0; s = x / 4^e
RECURSIVE SqrtAux(_, _)
SqrtStep(x, e, s, lo) ==
    IF RLt(s, Num(lo * lo)) THEN SqrtAux(x, e - 1)
    ELSE IF RLe(Num(4 * lo * lo), s) THEN SqrtAux(x, e + 1)
    ELSE Scaled(SquareNearest(SquareFloor(lo, 2 * lo - 1, s[1], s[2]), s[1], s[2]), e)
SqrtAux(x, e) == SqrtStep(x, e, ScaleDown(x, 2 * e), Pow2(MantissaBits - 1))
Sqrt(x) == SqrtAux(x, 0)

\* sigma_sq of the unit-mass density with half-width a
sigma_sq_from_a(family, a) ==
    CASE family = "Sparsemax" -> Rnd(RDiv(RMul(Two, RPow(a, 3)), Num(3)))
      [] family = "Biweight" -> Sqrt(RDiv(RPow(a, 5), Num(15)))
      [] family = "Triweight" -> Cbrt(RDiv(RMul(Num(4), RPow(a, 7)), Num(945)))

\* the support size 2a of the unit-mass density with scale sigma_sq
support_size_from_sigma_sq(family, sigma_sq) ==
    CASE family = "Sparsemax" ->
           FMul(Two, Cbrt(RDiv(RMul(Num(3), sigma_sq), Two)))

\* the density vanishes at mu +- a
tau_from_a(a, sigma_sq) == Rnd(RNeg(RDiv(RPow(a, 2), RMul(Two, sigma_sq))))

\* the variance of the unit-mass density with half-width a
variance_from_a(family, a) ==
    CASE family = "Sparsemax" -> Rnd(RDiv(RPow(a, 2), Num(5)))
      [] family = "Biweight" -> Rnd(RDiv(RPow(a, 2), Num(7)))
      [] family = "Triweight" -> Rnd(RDiv(RPow(a, 2), Num(9)))

\* a distribution object before set_parameters
NewDistribution(family, alpha) ==
    [family |-> family, alpha |-> alpha, mu |-> Unset, sigma_sq |-> Unset,
     a |-> Unset, tau |-> Unset]

\* the distribution with mean mu, half-width a and scale sigma_sq
Distribution_with(d, mu, a, sigma_sq) ==
    [d EXCEPT !.mu = mu, !.a = a, !.sigma_sq = sigma_sq,
              !.tau = TMap2(tau_from_a, a, sigma_sq)]

\* set_parameters(mu, support_size = 2a) of a family
Distribution_from_a(d, mu, a) ==
    Distribution_with(d, mu, a,
        Tensor([b \in Batch |-> sigma_sq_from_a(d.family, a.v[b])]))

\* set_parameters(mu, sigma_sq) of a family
Distribution_from_sigma_sq(d, mu, sigma_sq) ==
    Distribution_with(d, mu,
        Tensor([b \in Batch |->
            FDiv(support_size_from_sigma_sq(d.family, sigma_sq.v[b]), Two)]),
        sigma_sq)

\* set_parameters(mu, support_size) of the generic distribution: sigma_sq and
\* tau are derived from alpha and a
Distribution_generic(d, mu, a) ==
    [d EXCEPT !.mu = mu, !.a = a,
              !.sigma_sq = Ext("sigma_sq_from_a", d.alpha, a),
              !.tau = Ext("tau", d.alpha, a)]

\* distribution.set_parameters(mu, sigma_sq, support_size): one of sigma_sq
\* and support_size is given, the other is derived from it
Distribution_set_parameters(d, mu, sigma_sq, support_size) ==
    CASE d.family = "Gaussian" ->
           [d EXCEPT !.mu = mu, !.sigma_sq = sigma_sq]
      [] d.family = "Entmax" ->
           Distribution_generic(d, mu, TScale(FDiv, support_size, Two))
      [] OTHER ->
           IF sigma_sq = None
           THEN Distribution_from_a(d, mu, TScale(FDiv, support_size, Two))
           ELSE Distribution_from_sigma_sq(d, mu, sigma_sq)

\* distribution.support_size()
Distribution_support_size(d) == TScale(FMul, d.a, Two)

\* distribution.variance()
Distribution_variance(d) ==
    CASE d.family = "Gaussian" -> d.sigma_sq
      [] d.family = "Entmax" -> Ext("variance", d.alpha, d.a)
      [] OTHER -> Tensor([b \in Batch |-> variance_from_a(d.family, d.a.v[b])])

\* distribution.mean()
Distribution_mean(d) == d.mu

\* ------------------------------------------------------------- the kernels
\* The heap is a sequence of kernel objects; an object's identity is its
\* index.  A kernel object holds its class, _alpha, its distribution object
\* _entmax, and the attributes set_parameters assigns.
Base == "EntmaxGaussian1DKernel"
Uniform == "Uniform1DKernel"
Gaussian == "Gaussian1DKernel"
Sparsemax == "SparsemaxGaussian1DKernel"
Biweight == "BiweightGaussian1DKernel"
Triweight == "TriweightGaussian1DKernel"

Kernel(cls, alpha, entmax) ==
    [cls |-> cls, alpha |-> alpha, entmax |-> entmax, mu |-> Unset,
     sigma_sq |-> Unset, a |-> Unset, density_value |-> Unset, escort |-> Unset]

\* the result of a constructor: the heap and the new object's index
Built(h, id) == [h |-> h, id |-> id]

RECURSIVE set_parameters(_, _, _, _, _, _)
RECURSIVE _escort_kernel(_, _)

\* the end of every __init__: the new object joins the heap, and
\* self.set_parameters(...) is called if mu is given
Construct(h, k, mu, sigma_sq, support_size, use_escort) ==
    LET h1 == Append(h, k)
    IN  Built(IF mu # None
              THEN set_parameters(h1, Len(h) + 1, mu, sigma_sq, support_size, use_escort)
              ELSE h1, Len(h) + 1)

\* EntmaxGaussian1DKernel.__init__
New_EntmaxGaussian1DKernel(h, alpha, mu, sigma_sq, support_size, use_escort) ==
    Construct(h, Kernel(Base, alpha, NewDistribution("Entmax", alpha)),
              mu, sigma_sq, support_size, use_escort)

\* Uniform1DKernel.__init__
New_Uniform1DKernel(h, mu, sigma_sq, support_size, use_escort) ==
    Construct(h, [Kernel(Uniform, Inf, None) EXCEPT !.sigma_sq = None, !.escort = None],
              mu, None, support_size, TRUE)

\* Gaussian1DKernel.__init__
New_Gaussian1DKernel(h, mu, sigma_sq, support_size, use_escort) ==
    Construct(h, Kernel(Gaussian, Scalar(One), NewDistribution("Gaussian", Scalar(One))),
              mu, sigma_sq, None, TRUE)

\* SparsemaxGaussian1DKernel.__init__
New_SparsemaxGaussian1DKernel(h, mu, sigma_sq, support_size, use_escort) ==
    Construct(h, Kernel(Sparsemax, Scalar(Two), NewDistribution("Sparsemax", Scalar(Two))),
              mu, sigma_sq, support_size, use_escort)

\* BiweightGaussian1DKernel.__init__: alpha = 1.5
New_BiweightGaussian1DKernel(h, mu, sigma_sq, support_size, use_escort) ==
    Construct(h, Kernel(Biweight, Scalar(<<3, 2>>),
                        NewDistribution("Biweight", Scalar(<<3, 2>>))),
              mu, sigma_sq, support_size, use_escort)

\* TriweightGaussian1DKernel.__init__: alpha = 4 / 3
New_TriweightGaussian1DKernel(h, mu, sigma_sq, support_size, use_escort) ==
    Construct(h, Kernel(Triweight, Scalar(FDiv(Num(4), Num(3))),
                        NewDistribution("Triweight", Scalar(FDiv(Num(4), Num(3))))),
              mu, sigma_sq, support_size, use_escort)

\* 1 / (2 - alpha) without the test for alpha = 2: the division by zero is
\* the value ZeroDivisionError
alpha_escort_unguarded(alpha) ==
    IF alpha = Inf THEN Scalar(Zero)
    ELSE IF FSub(Two, alpha.v) = Zero THEN [t |-> "ZeroDivisionError"]
    ELSE Scalar(FDiv(One, FSub(Two, alpha.v)))

\* alpha_escort of EntmaxGaussian1DKernel._escort_kernel
alpha_escort(alpha) ==
    IF alpha # Scalar(Two)
    THEN IF alpha = Inf THEN Scalar(Zero)
         ELSE Scalar(FDiv(One, FSub(Two, alpha.v)))
    ELSE Inf

\* EntmaxGaussian1DKernel._escort_kernel
Base_escort_kernel(h, id) ==
    New_EntmaxGaussian1DKernel(h, alpha_escort(h[id].alpha), h[id].mu, None,
                               Distribution_support_size(h[id].entmax), FALSE)

\* what a Sparsemax kernel would build had it not overridden _escort_kernel
Sparsemax_escort_kernel_inherited(h, id) ==
    New_EntmaxGaussian1DKernel(h, Inf, h[id].mu, None,
                               Distribution_support_size(h[id].entmax), FALSE)

\* SparsemaxGaussian1DKernel._escort_kernel
Sparsemax_escort_kernel(h, id) ==
    New_Uniform1DKernel(h, h[id].mu, None, TScale(FMul, h[id].a, Two), TRUE)

\* a Biweight escort that is allowed an escort of its own
Biweight_escort_kernel_with_escort(h, id) ==
    New_SparsemaxGaussian1DKernel(h, h[id].mu, None,
                                  Distribution_support_size(h[id].entmax), TRUE)

\* BiweightGaussian1DKernel._escort_kernel
Biweight_escort_kernel(h, id) ==
    New_SparsemaxGaussian1DKernel(h, h[id].mu, None,
                                  Distribution_support_size(h[id].entmax), FALSE)

\* a Triweight escort built on the half-width instead of the support size
Triweight_escort_kernel_half(h, id) ==
    New_BiweightGaussian1DKernel(h, h[id].mu, None, h[id].a, FALSE)

\* TriweightGaussian1DKernel._escort_kernel
Triweight_escort_kernel(h, id) ==
    New_BiweightGaussian1DKernel(h, h[id].mu, None,
                                 Distribution_support_size(h[id].entmax), FALSE)

\* self._escort_kernel(), by the class of self
_escort_kernel(h, id) ==
    CASE h[id].cls = Sparsemax -> Sparsemax_escort_kernel(h, id)
      [] h[id].cls = Biweight -> Biweight_escort_kernel(h, id)
      [] h[id].cls = Triweight -> Triweight_escort_kernel(h, id)
      [] OTHER -> Base_escort_kernel(h, id)

\* self._escort = <the kernel e just built>
Base_link(id, e) == [e.h EXCEPT ![id].escort = Ref(e.id)]

\* an assignment of self._escort that keeps the old escort without use_escort
Base_set_escort_kept(h, id, use_escort) ==
    IF use_escort
    THEN Base_link(id, _escort_kernel(h, id))
    ELSE h

\* self._escort = self._escort_kernel() if use_escort else None
Base_set_escort(h, id, use_escort) ==
    IF use_escort
    THEN Base_link(id, _escort_kernel(h, id))
    ELSE [h EXCEPT ![id].escort = None]

\* self._mu, self._sigma_sq, self._a, self._escort of set_parameters, d the
\* distribution object after its set_parameters
Base_set_attributes(h, id, mu, d, use_escort) ==
    Base_set_escort([h EXCEPT ![id].entmax = d,
                              ![id].mu = mu,
                              ![id].sigma_sq = d.sigma_sq,
                              ![id].a = TScale(FDiv, Distribution_support_size(d), Two)],
                    id, use_escort)

\* EntmaxGaussian1DKernel.set_parameters
Base_set_parameters(h, id, mu, sigma_sq, support_size, use_escort) ==
    Base_set_attributes(h, id, mu,
        Distribution_set_parameters(h[id].entmax, mu, sigma_sq, support_size),
        use_escort)

\* a density value that forgets the factor 2
Uniform_density_value_wide(a) == FDiv(One, a)

\* 1 / (2 * self._a)
Uniform_density_value(a) == FDiv(One, FMul(Two, a))

\* Uniform1DKernel.set_parameters
Uniform_set_attributes(h, id, mu, a) ==
    [h EXCEPT ![id].mu = mu,
              ![id].a = a,
              ![id].density_value = TMap1(Uniform_density_value, a)]

Uniform_set_parameters(h, id, mu, support_size) ==
    Uniform_set_attributes(h, id, mu, TScale(FDiv, support_size, Two))

\* Gaussian1DKernel.set_parameters
Gaussian_set_attributes(h, id, mu, d) ==
    [h EXCEPT ![id].entmax = d,
              ![id].mu = mu,
              ![id].sigma_sq = d.sigma_sq,
              ![id].escort = Ref(id)]

Gaussian_set_parameters(h, id, mu, sigma_sq) ==
    Gaussian_set_attributes(h, id, mu,
        Distribution_set_parameters(h[id].entmax, mu, sigma_sq, None))

\* self.set_parameters(...), by the class of self
set_parameters(h, id, mu, sigma_sq, support_size, use_escort) ==
    CASE h[id].cls = Uniform -> Uniform_set_parameters(h, id, mu, support_size)
      [] h[id].cls = Gaussian -> Gaussian_set_parameters(h, id, mu, sigma_sq)
      [] OTHER -> Base_set_parameters(h, id, mu, sigma_sq, support_size, use_escort)

\* The objects no reference reaches any more are dropped: the heap keeps the
\* kernel the caller holds (index 1) and the chain of escorts it reaches.
RECURSIVE Chain(_, _, _)
Chain(h, id, seen) ==
    IF id \in seen THEN <<>>
    ELSE <<id>> \o (IF h[id].escort.t = "ref"
                    THEN Chain(h, h[id].escort.id, seen \cup {id})
                    ELSE <<>>)

Collect(h) ==
    LET ids == Chain(h, 1, {})
        new(i) == CHOOSE j \in 1..Len(ids) : ids[j] = i
    IN  [j \in 1..Len(ids) |->
           IF h[ids[j]].escort.t = "ref"
           THEN [h[ids[j]] EXCEPT !.escort = Ref(new(h[ids[j]].escort.id))]
           ELSE h[ids[j]]]

\* --------------------------------------------------------- the basis psi
\* psi has PsiDim outputs; output j is the monomial t^deg[j].  Its
\* integration primitives return the integral, correctly rounded.
Psi(deg) == [deg |-> deg]

\* psi.integrate_psi (k = 0), psi.integrate_t_times_psi (k = 1), ...,
\* psi.integrate_t6_times_psi (k = 6): the integral of t^k psi(t) over [u, v]
integrate_tk_times_psi(psi, k, u, v) ==
    [b \in Batch |-> [j \in Cols |->
        LET n == k + psi.deg[j] + 1
        IN  Rnd(RDiv(RSub(RPow(v.v[b], n), RPow(u.v[b], n)), Num(n)))]]

\* the moment E[t^m] of the Gaussian with mean mu and variance s
GaussianMoment(m, mu, s) ==
    CASE m = 0 -> One
      [] m = 1 -> mu
      [] m = 2 -> RAdd(RPow(mu, 2), s)
      [] m = 3 -> RAdd(RPow(mu, 3), RMul(Num(3), RMul(mu, s)))

\* psi.integrate_psi_gaussian (k = 0), psi.integrate_t_times_psi_gaussian
\* (k = 1), psi.integrate_t2_times_psi_gaussian (k = 2)
integrate_tk_times_psi_gaussian(psi, k, mu, sigma_sq) ==
    [b \in Batch |-> [j \in Cols |->
        Rnd(GaussianMoment(k + psi.deg[j], mu.v[b], sigma_sq.v[b]))]]

\* ------------------------------------------------------- results of calls
Ok(v) == [ok |-> TRUE, v |-> v, err |-> "", numeric |-> FALSE]
Raise(e) == [ok |-> FALSE, v |-> None, err |-> e, numeric |-> FALSE]
\* the result of a 1000-sample trapezoidal integration: its value is not computed
Numeric == [ok |-> TRUE, v |-> [t |-> "trapz"], err |-> "", numeric |-> TRUE]

IsTensor(x) == x.t = "tensor"

\* c.unsqueeze(1) * I, and sums of such products, on BatchSize x PsiDim arrays
RowScale(c, I) == [b \in Batch |-> [j \in Cols |-> FMul(c.v[b], I[b][j])]]
MAdd(x, y) == [b \in Batch |-> [j \in Cols |-> FAdd(x[b][j], y[b][j])]]
MSub(x, y) == [b \in Batch |-> [j \in Cols |-> FSub(x[b][j], y[b][j])]]

\* ------------------------------------------------- EntmaxGaussian1DKernel
\* expectation_psi, expectation_t_times_psi, expectation_t2_times_psi of the
\* base class: trapezoidal integration of t^k pdf(t) psi(t) over [mu-a, mu+a]
Base_expectation_tk_times_psi(k, psi) ==
    IF IsTensor(k.mu) /\ IsTensor(k.a) THEN Numeric ELSE Raise("AttributeError")

\* EntmaxGaussian1DKernel.expectation_t
Base_expectation_t(k) ==
    IF k.mu = Unset THEN Raise("AttributeError") ELSE Ok(k.mu)

\* EntmaxGaussian1DKernel.expectation_t2
Base_expectation_t2(k) ==
    IF k.entmax = None \/ ~IsTensor(k.mu) THEN Raise("AttributeError")
    ELSE LET var == Distribution_variance(k.entmax)
             sq(x) == FPow(x, 2)
         IN  IF IsTensor(var) THEN Ok(TMap2(FAdd, var, TMap1(sq, k.mu)))
             ELSE Ok(Ext("expectation_t2", k.alpha, k.a))

\* EntmaxGaussian1DKernel.mean, variance, support_size
Base_mean(k) ==
    IF k.entmax = None \/ k.mu = Unset THEN Raise("AttributeError")
    ELSE Ok(Distribution_mean(k.entmax))

Base_variance(k) ==
    IF k.entmax = None \/ k.mu = Unset THEN Raise("AttributeError")
    ELSE Ok(Distribution_variance(k.entmax))

Base_support_size(k) ==
    IF k.entmax = None \/ k.mu = Unset THEN Raise("AttributeError")
    ELSE IF IsTensor(k.entmax.a) THEN Ok(Distribution_support_size(k.entmax))
    ELSE Ok(Ext("support_size", k.alpha, k.sigma_sq))

\* ---------------------------------------------------------- Uniform1DKernel
Uniform_expectation_t(k) ==
    IF k.mu = Unset THEN Raise("AttributeError") ELSE Ok(k.mu)

\* a second moment without the factor 1/3
Uniform_expectation_t2_wide(k) ==
    IF ~IsTensor(k.mu) THEN Raise("AttributeError")
    ELSE Ok(Tensor([b \in Batch |-> FAdd(FPow(k.a.v[b], 2), FPow(k.mu.v[b], 2))]))

Uniform_expectation_t2(k) ==
    IF ~IsTensor(k.mu) THEN Raise("AttributeError")
    ELSE Ok(Tensor([b \in Batch |->
            FAdd(FMul(FDiv(One, Num(3)), FPow(k.a.v[b], 2)), FPow(k.mu.v[b], 2))]))

\* Uniform1DKernel.expectation_psi (k = 0), expectation_t_times_psi (k = 1),
\* expectation_t2_times_psi (k = 2)
Uniform_expectation_tk_times_psi(k, n, psi) ==
    IF ~IsTensor(k.mu) THEN Raise("AttributeError")
    ELSE LET u == TMap2(FSub, k.mu, k.a)
             v == TMap2(FAdd, k.mu, k.a)
         IN  Ok(Matrix(RowScale(k.density_value, integrate_tk_times_psi(psi, n, u, v))))

\* --------------------------------------------------------- Gaussian1DKernel
Gaussian_escort_normalizer(k) ==
    IF ~IsTensor(k.mu) THEN Raise("AttributeError")
    ELSE Ok(Tensor([b \in Batch |-> One]))

\* Gaussian1DKernel.expectation_psi (k = 0), expectation_t_times_psi (k = 1),
\* expectation_t2_times_psi (k = 2)
Gaussian_expectation_tk_times_psi(k, n, psi) ==
    IF ~IsTensor(k.mu) THEN Raise("AttributeError")
    ELSE Ok(Matrix(integrate_tk_times_psi_gaussian(psi, n, k.mu, k.sigma_sq)))

\* ------------------------------------------------ SparsemaxGaussian1DKernel
Sparsemax_escort_normalizer(k) ==
    IF ~IsTensor(k.a) THEN Raise("AttributeError")
    ELSE Ok(TScale(FMul, k.a, Two))

\* SparsemaxGaussian1DKernel.expectation_psi (n = 0), expectation_t_times_psi
\* (n = 1), expectation_t2_times_psi (n = 2)
Sparsemax_expectation_tk_times_psi(k, n, psi) ==
    IF ~IsTensor(k.mu) THEN Raise("AttributeError")
    ELSE LET u == TMap2(FSub, k.mu, k.a)
             v == TMap2(FAdd, k.mu, k.a)
             tau == k.entmax.tau
             c0 == Tensor([b \in Batch |->
                     FSub(FNeg(tau.v[b]),
                          FDiv(FPow(k.mu.v[b], 2), FMul(Two, k.sigma_sq.v[b])))])
             c1 == TMap2(FDiv, k.mu, k.sigma_sq)
             c2 == Tensor([b \in Batch |->
                     FDiv(Num(-1), FMul(Two, k.sigma_sq.v[b]))])
         IN  Ok(Matrix(
               MAdd(MAdd(RowScale(c0, integrate_tk_times_psi(psi, n, u, v)),
                         RowScale(c1, integrate_tk_times_psi(psi, n + 1, u, v))),
                    RowScale(c2, integrate_tk_times_psi(psi, n + 2, u, v)))))

\* ------------------------------------------------- BiweightGaussian1DKernel
Biweight_escort_normalizer(k) ==
    IF ~IsTensor(k.a) THEN Raise("AttributeError")
    ELSE Ok(Tensor([b \in Batch |->
            FSub(FMul(FNeg(k.entmax.tau.v[b]), k.a.v[b]),
                 FDiv(FPow(k.a.v[b], 3), FMul(Num(6), k.sigma_sq.v[b])))]))

\* BiweightGaussian1DKernel.expectation_psi (n = 0), expectation_t_times_psi
\* (n = 1), expectation_t2_times_psi (n = 2)
Biweight_expectation_tk_times_psi(k, n, psi) ==
    IF ~IsTensor(k.mu) THEN Raise("AttributeError")
    ELSE LET u == TMap2(FSub, k.mu, k.a)
             v == TMap2(FAdd, k.mu, k.a)
             c == FPow(FSub(k.alpha.v, One), 2)
             T(b) == k.entmax.tau.v[b]
             M(b) == k.mu.v[b]
             S(b) == k.sigma_sq.v[b]
             c0 == Tensor([b \in Batch |->
                     FMul(c, FAdd(FMul(T(b), FAdd(T(b), FDiv(FPow(M(b), 2), S(b)))),
                                  FDiv(FPow(M(b), 4), FMul(Num(4), FPow(S(b), 2)))))])
             c1 == Tensor([b \in Batch |->
                     FMul(FNeg(c), FAdd(FDiv(FMul(FMul(T(b), Two), M(b)), S(b)),
                                        FDiv(FPow(M(b), 3), FPow(S(b), 2))))])
             c2 == Tensor([b \in Batch |->
                     FMul(c, FAdd(FDiv(T(b), S(b)),
                                  FDiv(FMul(Num(3), FPow(M(b), 2)),
                                       FMul(Two, FPow(S(b), 2)))))])
             c3 == Tensor([b \in Batch |->
                     FDiv(FMul(FNeg(c), M(b)), FPow(S(b), 2))])
             c4 == Tensor([b \in Batch |->
                     FDiv(c, FMul(Num(4), FPow(S(b), 2)))])
         IN  Ok(Matrix(
               MAdd(MAdd(MAdd(MAdd(
                   RowScale(c0, integrate_tk_times_psi(psi, n, u, v)),
                   RowScale(c1, integrate_tk_times_psi(psi, n + 1, u, v))),
                   RowScale(c2, integrate_tk_times_psi(psi, n + 2, u, v))),
                   RowScale(c3, integrate_tk_times_psi(psi, n + 3, u, v))),
                   RowScale(c4, integrate_tk_times_psi(psi, n + 4, u, v)))))

\* ------------------------------------------------ TriweightGaussian1DKernel
Triweight_escort_normalizer(k) ==
    IF ~IsTensor(k.a) THEN Raise("AttributeError")
    ELSE Ok(Tensor([b \in Batch |->
            LET tau == k.entmax.tau.v[b]
                a == k.a.v[b]
                s == k.sigma_sq.v[b]
            IN  FMul(FDiv(One, Num(9)),
                     FAdd(FAdd(FMul(FMul(Two, FPow(tau, 2)), a),
                               FMul(FDiv(FMul(Two, tau), FMul(Num(3), s)), FPow(a, 3))),
                          FMul(FDiv(One, FMul(Num(10), FPow(s, 2))), FPow(a, 5))))]))

\* TriweightGaussian1DKernel.expectation_psi
Triweight_expectation_psi(k, psi) ==
    IF ~IsTensor(k.mu) THEN Raise("AttributeError")
    ELSE LET u == TMap2(FSub, k.mu, k.a)
             v == TMap2(FAdd, k.mu, k.a)
             c == FNeg(FPow(FSub(k.alpha.v, One), 3))
             T(b) == k.entmax.tau.v[b]
             M(b) == k.mu.v[b]
             S(b) == k.sigma_sq.v[b]
             F(x, y) == FDiv(Num(x), Num(y))
             c0 == Tensor([b \in Batch |->
                     FMul(c, FAdd(FAdd(FAdd(
                         FPow(T(b), 3),
                         FDiv(FMul(FMul(F(3, 2), FPow(T(b), 2)), FPow(M(b), 2)), S(b))),
                         FDiv(FMul(FMul(F(3, 4), T(b)), FPow(M(b), 4)), FPow(S(b), 2))),
                         FDiv(FMul(F(1, 8), FPow(M(b), 6)), FPow(S(b), 3))))])
             c1 == Tensor([b \in Batch |->
                     FMul(FNeg(c), FAdd(FAdd(
                         FDiv(FMul(FMul(Num(3), FPow(T(b), 2)), M(b)), S(b)),
                         FDiv(FMul(FMul(Num(3), T(b)), FPow(M(b), 3)), FPow(S(b), 2))),
                         FDiv(FMul(F(3, 4), FPow(M(b), 5)), FPow(S(b), 3))))])
             c2 == Tensor([b \in Batch |->
                     FMul(c, FAdd(FAdd(
                         FDiv(FMul(F(3, 2), FPow(T(b), 2)), S(b)),
                         FDiv(FMul(FMul(F(9, 2), T(b)), FPow(M(b), 2)), FPow(S(b), 2))),
                         FDiv(FMul(F(15, 8), FPow(M(b), 4)), FPow(S(b), 3))))])
             c3 == Tensor([b \in Batch |->
                     FMul(FNeg(c), FAdd(
                         FDiv(FMul(FMul(Num(3), T(b)), M(b)), FPow(S(b), 2)),
                         FDiv(FMul(F(5, 2), FPow(M(b), 3)), FPow(S(b), 3))))])
             c4 == Tensor([b \in Batch |->
                     FMul(c, FAdd(
                         FDiv(FMul(F(3, 4), T(b)), FPow(S(b), 2)),
                         FDiv(FMul(F(15, 8), FPow(M(b), 2)), FPow(S(b), 3))))])
             c5 == Tensor([b \in Batch |->
                     FMul(FNeg(c), FDiv(FMul(F(3, 4), M(b)), FPow(S(b), 3)))])
             c6 == Tensor([b \in Batch |->
                     FMul(c, FDiv(FMul(F(1, 8), One), FPow(S(b), 3)))])
         IN  Ok(Matrix(
               MAdd(MAdd(MAdd(MAdd(MAdd(MAdd(
                   RowScale(c0, integrate_tk_times_psi(psi, 0, u, v)),
                   RowScale(c1, integrate_tk_times_psi(psi, 1, u, v))),
                   RowScale(c2, integrate_tk_times_psi(psi, 2, u, v))),
                   RowScale(c3, integrate_tk_times_psi(psi, 3, u, v))),
                   RowScale(c4, integrate_tk_times_psi(psi, 4, u, v))),
                   RowScale(c5, integrate_tk_times_psi(psi, 5, u, v))),
                   RowScale(c6, integrate_tk_times_psi(psi, 6, u, v)))))

\* what a Triweight kernel would compute had it not overridden the method
Triweight_expectation_inherited(k, psi) == Base_expectation_tk_times_psi(k, psi)

\* TriweightGaussian1DKernel.expectation_t_times_psi, expectation_t2_times_psi
Triweight_expectation_t_times_psi(k, psi) == Raise("NotImplementedError")
Triweight_expectation_t2_times_psi(k, psi) == Raise("NotImplementedError")

\* ------------------------------------------------ the methods, by class
\* self.expectation_psi (n = 0), self.expectation_t_times_psi (n = 1),
\* self.expectation_t2_times_psi (n = 2)
expectation_tk_times_psi(k, n, psi) ==
    CASE k.cls = Uniform -> Uniform_expectation_tk_times_psi(k, n, psi)
      [] k.cls = Gaussian -> Gaussian_expectation_tk_times_psi(k, n, psi)
      [] k.cls = Sparsemax -> Sparsemax_expectation_tk_times_psi(k, n, psi)
      [] k.cls = Biweight -> Biweight_expectation_tk_times_psi(k, n, psi)
      [] k.cls = Triweight ->
           IF n = 0 THEN Triweight_expectation_psi(k, psi)
           ELSE IF n = 1 THEN Triweight_expectation_t_times_psi(k, psi)
           ELSE Triweight_expectation_t2_times_psi(k, psi)
      [] OTHER -> Base_expectation_tk_times_psi(k, psi)

expectation_t(k) ==
    IF k.cls = Uniform THEN Uniform_expectation_t(k) ELSE Base_expectation_t(k)

expectation_t2(k) ==
    IF k.cls = Uniform THEN Uniform_expectation_t2(k) ELSE Base_expectation_t2(k)

\* EntmaxGaussian1DKernel._escort_normalizer: self._escort._alpha is read
\* first, then f is integrated over [-a, a] by the trapezoidal rule
Base_escort_normalizer(h, k) ==
    IF k.escort.t # "ref" \/ ~IsTensor(k.a) \/ k.sigma_sq.t \in {"unset", "none"}
       \/ k.entmax = None
    THEN Raise("AttributeError")
    ELSE IF h[k.escort.id].alpha = Scalar(One) THEN Raise("ZeroDivisionError")
    ELSE Numeric

_escort_normalizer(h, k) ==
    CASE k.cls = Gaussian -> Gaussian_escort_normalizer(k)
      [] k.cls = Sparsemax -> Sparsemax_escort_normalizer(k)
      [] k.cls = Biweight -> Biweight_escort_normalizer(k)
      [] k.cls = Triweight -> Triweight_escort_normalizer(k)
      [] OTHER -> Base_escort_normalizer(h, k)

\* EntmaxGaussian1DKernel.attention
attention(k, psi) == expectation_tk_times_psi(k, 0, psi)

\* a gradient term without the escort normalizer
GradientTerm_unnormalized(Z, left, E, E_psi) == MSub(left, RowScale(E, E_psi))

\* Z.unsqueeze(1) * (left - E.unsqueeze(1) * E_psi)
GradientTerm(Z, left, E, E_psi) ==
    RowScale(Z, MSub(left, RowScale(E, E_psi)))

\* g1 and g2 of attention_gradient, from the escort normalizer Z and the
\* escort's expectations, in the order they are computed
attention_gradient_terms(Z, left1, Et, Epsi, left2, Et2) ==
    IF ~left1.ok THEN left1
    ELSE IF ~Et.ok THEN Et
    ELSE IF ~Epsi.ok THEN Epsi
    ELSE IF ~left2.ok THEN left2
    ELSE IF ~Et2.ok THEN Et2
    ELSE IF Z.numeric \/ left1.numeric \/ Epsi.numeric \/ left2.numeric
    THEN Numeric
    ELSE Ok([t |-> "pair",
             g1 |-> Matrix(GradientTerm(Z.v, left1.v.v, Et.v, Epsi.v.v)),
             g2 |-> Matrix(GradientTerm(Z.v, left2.v.v, Et2.v, Epsi.v.v))])

\* the calls attention_gradient makes on self._escort = e
attention_gradient_escort(Z, e, psi) ==
    attention_gradient_terms(Z, expectation_tk_times_psi(e, 1, psi), expectation_t(e),
                             expectation_tk_times_psi(e, 0, psi),
                             expectation_tk_times_psi(e, 2, psi), expectation_t2(e))

\* an attention_gradient that takes the kernel itself for a missing escort
attention_gradient_after_self(h, k, psi, Z) ==
    IF ~Z.ok THEN Z
    ELSE attention_gradient_escort(Z, IF k.escort.t = "ref" THEN h[k.escort.id] ELSE k, psi)

\* attention_gradient after escort_normalizer = Z
attention_gradient_after(h, k, psi, Z) ==
    IF ~Z.ok THEN Z
    ELSE IF k.escort.t # "ref" THEN Raise("AttributeError")
    ELSE attention_gradient_escort(Z, h[k.escort.id], psi)

\* EntmaxGaussian1DKernel.attention_gradient
attention_gradient(h, k, psi) ==
    attention_gradient_after(h, k, psi, _escort_normalizer(h, k))

\* ------------------------------------------------------------ the caller
\* heap: the kernel the caller holds (index 1) and the escorts it reaches;
\* last: the caller's last call, its arguments, its result, the number of
\* kernel objects it constructed, whether the kernel had an escort when it
\* was made and whether it repeats the set_parameters call just before it.
VARIABLES heap, last
vars == <<heap, last>>

\* a tensor whose elements alternate between x and y
B2(x, y) == Tensor([b \in Batch |-> IF b % 2 = 1 THEN x ELSE y])

\* the alpha a caller gives the generic kernel
AlphaChoices == {Scalar(FDiv(Num(4), Num(3))), Scalar(<<3, 2>>), Scalar(Two)}

\* the arguments a caller gives set_parameters, by class.  Uniform1DKernel's
\* set_parameters takes no use_escort: for it the field holds the true that
\* the kernels' set_parameters has as its default.
Args(mu, sigma_sq, support_size, use_escort) ==
    [mu |-> mu, sigma_sq |-> sigma_sq, support_size |-> support_size,
     use_escort |-> use_escort]

ArgChoices(cls) ==
    CASE cls = Uniform ->
           {Args(mu, None, s, TRUE) :
              mu \in {B2(Zero, Zero), B2(<<15, 2>>, One)},
              s \in {B2(Two, Two), B2(<<1, 2>>, One)}}
      [] cls = Gaussian ->
           {Args(mu, s, None, TRUE) :
              mu \in {B2(Zero, Zero), B2(One, <<-1, 2>>)},
              s \in {B2(One, One), B2(<<1, 2>>, Two)}}
      [] cls = Sparsemax ->
           {Args(mu, None, s, e) :
              mu \in {B2(Zero, Zero), B2(<<15, 2>>, One)},
              s \in {B2(Two, Two), B2(<<1, 2>>, One)}, e \in BOOLEAN}
           \cup {Args(B2(Zero, One), B2(<<11, 16>>, <<11, 128>>), None, e) : e \in BOOLEAN}
      [] OTHER ->
           {Args(mu, None, s, e) :
              mu \in {B2(Zero, Zero), B2(One, <<-1, 2>>)},
              s \in {B2(Two, Two), B2(One, Two)}, e \in BOOLEAN}

\* the bases psi a caller passes: the constant basis, and 1, t, 1, t, ...
PsiChoices == {Psi([j \in Cols |-> 0]), Psi([j \in Cols |-> (j - 1) % 2])}

Call(op, args, res, built) ==
    [op |-> op, args |-> args, res |-> res, built |-> built,
     had_escort |-> FALSE, repeated |-> FALSE]

SetCall(args, built, had_escort, repeated) ==
    [op |-> "set_parameters", args |-> args, res |-> Ok(None), built |-> built,
     had_escort |-> had_escort, repeated |-> repeated]

\* the caller constructs a kernel of one of the classes, without parameters
Init ==
    /\ heap \in {New_Uniform1DKernel(<<>>, None, None, None, TRUE).h,
                 New_Gaussian1DKernel(<<>>, None, None, None, TRUE).h,
                 New_SparsemaxGaussian1DKernel(<<>>, None, None, None, TRUE).h,
                 New_BiweightGaussian1DKernel(<<>>, None, None, None, TRUE).h,
                 New_TriweightGaussian1DKernel(<<>>, None, None, None, TRUE).h}
              \cup {New_EntmaxGaussian1DKernel(<<>>, alpha, None, None, None, TRUE).h :
                      alpha \in AlphaChoices}
    /\ last = Call("__init__", None, Ok(None), 1)

\* kernel.set_parameters(mu, sigma_sq, support_size, use_escort)
SetParameters ==
    \E args \in ArgChoices(heap[1].cls) :
        \E h \in {set_parameters(heap, 1, args.mu, args.sigma_sq,
                                 args.support_size, args.use_escort)} :
            /\ heap' = Collect(h)
            /\ last' = SetCall(args, Len(h) - Len(heap), heap[1].escort.t = "ref",
                               last.op = "set_parameters" /\ last.args = args)

\* an attention call that drops the escort
Attention_dropping ==
    \E psi \in PsiChoices :
        /\ last' = Call("attention", psi, attention(heap[1], psi), 0)
        /\ heap' = Collect([heap EXCEPT ![1].escort = None])

\* kernel.attention(psi)
Attention ==
    \E psi \in PsiChoices :
        /\ last' = Call("attention", psi, attention(heap[1], psi), 0)
        /\ UNCHANGED heap

\* kernel.attention_gradient(psi)
AttentionGradient ==
    \E psi \in PsiChoices :
        /\ last' = Call("attention_gradient", psi, attention_gradient(heap, heap[1], psi), 0)
        /\ UNCHANGED heap

\* kernel._escort.attention_gradient(psi): the caller asks the escort the
\* kernel holds, an object its parent built, for its gradient
EscortAttentionGradient ==
    /\ heap[1].escort.t = "ref"
    /\ \E psi \in PsiChoices :
        /\ last' = Call("_escort.attention_gradient", psi,
                        attention_gradient(heap, heap[heap[1].escort.id], psi), 0)
        /\ UNCHANGED heap

\* kernel.expectation_t()
ExpectationT ==
    /\ last' = Call("expectation_t", None, expectation_t(heap[1]), 0)
    /\ UNCHANGED heap

\* kernel.expectation_t2()
ExpectationT2 ==
    /\ last' = Call("expectation_t2", None, expectation_t2(heap[1]), 0)
    /\ UNCHANGED heap

\* kernel.expectation_psi(psi)
ExpectationPsi ==
    \E psi \in PsiChoices :
        /\ last' = Call("expectation_psi", psi, expectation_tk_times_psi(heap[1], 0, psi), 0)
        /\ UNCHANGED heap

\* kernel.expectation_t_times_psi(psi)
ExpectationTTimesPsi ==
    \E psi \in PsiChoices :
        /\ last' = Call("expectation_t_times_psi", psi,
                        expectation_tk_times_psi(heap[1], 1, psi), 0)
        /\ UNCHANGED heap

\* kernel.expectation_t2_times_psi(psi)
ExpectationT2TimesPsi ==
    \E psi \in PsiChoices :
        /\ last' = Call("expectation_t2_times_psi", psi,
                        expectation_tk_times_psi(heap[1], 2, psi), 0)
        /\ UNCHANGED heap

\* kernel._escort_normalizer()
EscortNormalizer ==
    /\ last' = Call("_escort_normalizer", None, _escort_normalizer(heap, heap[1]), 0)
    /\ UNCHANGED heap

\* kernel.mean()
Mean ==
    /\ last' = Call("mean", None, Base_mean(heap[1]), 0)
    /\ UNCHANGED heap

\* kernel.variance()
Variance ==
    /\ last' = Call("variance", None, Base_variance(heap[1]), 0)
    /\ UNCHANGED heap

\* kernel.support_size()
SupportSize ==
    /\ last' = Call("support_size", None, Base_support_size(heap[1]), 0)
    /\ UNCHANGED heap

Next ==
    \/ SetParameters
    \/ Attention
    \/ AttentionGradient
    \/ EscortAttentionGradient
    \/ ExpectationT
    \/ ExpectationT2
    \/ ExpectationPsi
    \/ ExpectationTTimesPsi
    \/ ExpectationT2TimesPsi
    \/ EscortNormalizer
    \/ Mean
    \/ Variance
    \/ SupportSize

Spec == Init /\ [][Next]_vars

\* ------------------------------------------------------------- properties
\* the kernel the caller holds, and the object its _escort refers to
Self == heap[1]
HasEscort == Self.escort.t = "ref"
Escort == heap[Self.escort.id]
ParametersSet == IsTensor(Self.mu)
SetWithEscort == last.op = "set_parameters" /\ last.args.use_escort

\* C1: escort construction never goes past depth 1.  A set_parameters call
\* constructs at most one kernel, the heap never holds more than the kernel
\* and one escort, an escort that is another object has _escort = None, and
\* a Gaussian kernel's set_parameters constructs nothing and points _escort
\* at the kernel itself.
C1_EscortDepth ==
    /\ Len(heap) <= 2
    /\ last.op = "set_parameters" => last.built <= 1
    /\ (HasEscort /\ Self.cls # Gaussian) =>
          (Self.escort.id # 1 /\ Escort.escort = None)
    /\ (Self.cls = Gaussian /\ last.op = "set_parameters") =>
          (last.built = 0 /\ Self.escort = Ref(1) /\ Len(heap) = 1)

\* a Triweight kernel was given an escort: one kernel built, without escort
C1_Witness ==
    /\ SetWithEscort /\ Self.cls = Triweight
    /\ last.built = 1 /\ HasEscort /\ Escort.escort = None

\* C2: the family of the escort follows the table.  A Uniform kernel's
\* _escort is None; a Gaussian kernel with parameters is its own escort;
\* set_parameters with use_escort gives Sparsemax, Biweight and Triweight an
\* escort, and that escort is a Uniform, a Sparsemax and a Biweight kernel.
C2_EscortFamily ==
    /\ Self.cls = Uniform => Self.escort = None
    /\ (Self.cls = Gaussian /\ ParametersSet) => Self.escort = Ref(1)
    /\ (Self.cls \in {Sparsemax, Biweight, Triweight} /\ SetWithEscort) => HasEscort
    /\ (HasEscort /\ Self.cls = Sparsemax) => Escort.cls = Uniform
    /\ (HasEscort /\ Self.cls = Biweight) => Escort.cls = Sparsemax
    /\ (HasEscort /\ Self.cls = Triweight) => Escort.cls = Biweight

\* a Biweight kernel was given its Sparsemax escort
C2_Witness ==
    /\ SetWithEscort /\ Self.cls = Biweight
    /\ HasEscort /\ Escort.cls = Sparsemax /\ IsTensor(Escort.mu)

\* C3: on a Triweight kernel, expectation_t_times_psi and
\* expectation_t2_times_psi end in NotImplementedError whatever psi and the
\* parameters are, and leave the kernel and its escort as they were.
C3_TriweightUnsupported ==
    [][(Self.cls = Triweight
        /\ last'.op \in {"expectation_t_times_psi", "expectation_t2_times_psi"})
       => (last'.res = Raise("NotImplementedError") /\ heap' = heap)]_vars

\* a Triweight kernel with parameters and an escort was asked for E[t^2 psi]
C3_Witness ==
    /\ last.op = "expectation_t2_times_psi" /\ Self.cls = Triweight
    /\ ParametersSet /\ HasEscort /\ last.res.err = "NotImplementedError"

\* the constant basis psi = 1, and the families attention_gradient is claimed for
ConstantPsi == Psi([j \in Cols |-> 0])
EscortedFamilies == {Gaussian, Sparsemax, Biweight, Triweight}

\* Z (E_escort[t^n psi] - E_escort[t^n] E_escort[psi]) for n = 1, 2, from
\* the kernel's escort normalizer and the escort's expectations
GradientFormula(n, psi) ==
    [b \in Batch |-> [j \in Cols |->
        FMul(_escort_normalizer(heap, Self).v.v[b],
             FSub(expectation_tk_times_psi(Escort, n, psi).v.v[b][j],
                  FMul((IF n = 1 THEN expectation_t(Escort)
                        ELSE expectation_t2(Escort)).v.v[b],
                       expectation_tk_times_psi(Escort, 0, psi).v.v[b][j])))]]

\* C4: once parameters are set with an escort, attention_gradient(psi)
\* of a Gaussian, Sparsemax, Biweight or Triweight kernel completes and
\* returns (g1, g2), two BatchSize x PsiDim arrays with
\* g1 = Z (E_escort[t psi] - E_escort[t] E_escort[psi]) and
\* g2 = Z (E_escort[t^2 psi] - E_escort[t^2] E_escort[psi]); on a Uniform
\* kernel, whose _escort is None, it ends in AttributeError.
C4_AttentionGradient ==
    last.op = "attention_gradient" =>
        /\ Self.cls = Uniform => last.res = Raise("AttributeError")
        /\ (Self.cls \in EscortedFamilies /\ HasEscort) =>
              /\ last.res.ok /\ ~last.res.numeric
              /\ last.res.v.g1 = Matrix(GradientFormula(1, last.args))
              /\ last.res.v.g2 = Matrix(GradientFormula(2, last.args))

\* a Triweight kernel with an escort returned a gradient that is not zero
C4_Witness ==
    /\ last.op = "attention_gradient" /\ Self.cls = Triweight /\ HasEscort
    /\ last.res.ok
    /\ \E b \in Batch, j \in Cols : last.res.v.g1.v[b][j] # Zero

\* C4 as stated: attention_gradient completes for every one of the five
\* families once parameters are set.
C4_AllFiveFamilies ==
    (/\ last.op = "attention_gradient"
     /\ Self.cls \in EscortedFamilies \cup {Uniform}
     /\ ParametersSet
     /\ (Self.cls = Uniform \/ HasEscort)) => last.res.ok

\* the kernel before set_parameters: an object of the same class and alpha
Fresh(k) ==
    CASE k.cls = Uniform -> New_Uniform1DKernel(<<>>, None, None, None, TRUE).h
      [] k.cls = Gaussian -> New_Gaussian1DKernel(<<>>, None, None, None, TRUE).h
      [] k.cls = Sparsemax -> New_SparsemaxGaussian1DKernel(<<>>, None, None, None, TRUE).h
      [] k.cls = Biweight -> New_BiweightGaussian1DKernel(<<>>, None, None, None, TRUE).h
      [] k.cls = Triweight -> New_TriweightGaussian1DKernel(<<>>, None, None, None, TRUE).h
      [] OTHER -> New_EntmaxGaussian1DKernel(<<>>, k.alpha, None, None, None, TRUE).h

\* C5: set_parameters is idempotent and re-derives the whole state.  After
\* a call the kernel and its escort are what the same call leaves on a new
\* kernel of that class, so nothing of an earlier call is carried over, and
\* a call that repeats the call before it leaves the kernel and its escort
\* as they were.
C5_SetParametersRederives ==
    [][last'.op = "set_parameters" =>
        /\ heap' = Collect(set_parameters(Fresh(Self), 1, last'.args.mu,
                                          last'.args.sigma_sq, last'.args.support_size,
                                          last'.args.use_escort))
        /\ last'.repeated => heap' = heap]_vars

\* set_parameters was called twice in a row with the same arguments, on a
\* kernel that held an escort, and the kernel holds an escort again
C5_Witness ==
    /\ last.op = "set_parameters" /\ last.repeated /\ last.had_escort
    /\ Self.cls = Biweight /\ HasEscort /\ last.built = 1

\* C6: the escort is built once per set_parameters call and is read-only
\* until the next one.  set_parameters builds one kernel when it is asked
\* for an escort on a class that has one to build and none otherwise; every
\* other call builds no kernel and leaves the kernel, its escort and their
\* parameters as they were.
C6_EscortReadOnly ==
    [][/\ last'.op = "set_parameters" =>
            last'.built = IF last'.args.use_escort
                              /\ Self.cls \in {Base, Sparsemax, Biweight, Triweight}
                           THEN 1 ELSE 0
       /\ last'.op # "set_parameters" => (heap' = heap /\ last'.built = 0)]_vars

\* attention was computed on a Sparsemax kernel that holds an escort
C6_Witness ==
    /\ last.op = "attention" /\ Self.cls = Sparsemax /\ HasEscort
    /\ last.res.ok /\ last.built = 0 /\ IsTensor(Escort.mu)

\* |x| and |x - y| of fractions, and 2^(1 - MantissaBits), the spacing of
\* the floating-point numbers between 1 and 2
RAbs(x) == <<Abs(x[1]), x[2]>>
Distance(x, y) == RAbs(RSub(x, y))
Ulp == <<1, Pow2(MantissaBits - 1)>>
FourThirds == Scalar(FDiv(Num(4), Num(3)))

\* C7: in the generic kernel's _escort_kernel, alpha = 2 gives the escort
\* alpha = infinity without dividing; any other alpha gives 1 / (2 - alpha)
\* as computed in floating point, which is exactly 2 for alpha = 3/2 but for
\* the float 4/3 is one unit in the last place away from 3/2.
C7_EscortAlpha ==
    /\ alpha_escort(Scalar(Two)) = Inf
    /\ (Self.cls = Base /\ HasEscort) =>
          /\ Self.alpha = Scalar(Two) => Escort.alpha = Inf
          /\ Self.alpha # Scalar(Two) =>
                Escort.alpha = Scalar(FDiv(One, FSub(Two, Self.alpha.v)))
          /\ Self.alpha = Scalar(<<3, 2>>) => Escort.alpha = Scalar(Two)
          /\ Self.alpha = FourThirds =>
                Distance(Escort.alpha.v, <<3, 2>>) = Ulp

\* a generic kernel with alpha = 2 was given its escort
C7_Witness ==
    /\ SetWithEscort /\ Self.cls = Base /\ Self.alpha = Scalar(Two)
    /\ HasEscort /\ Escort.alpha = Inf

\* C7 as stated: 1 / (2 - alpha) takes 4/3 to 3/2.
C7_ChainExact ==
    (Self.cls = Base /\ HasEscort /\ Self.alpha = FourThirds) =>
        Escort.alpha = Scalar(<<3, 2>>)

\* mu - a, mu + a and 1 / (2a) of batch element b are computed without rounding
NoRounding(k, b) ==
    /\ Exact(RSub(k.mu.v[b], k.a.v[b]))
    /\ Exact(RAdd(k.mu.v[b], k.a.v[b]))
    /\ Exact(RDiv(One, RMul(Two, k.a.v[b])))

UniformAsked(op) ==
    last.op = op /\ Self.cls = Uniform /\ ParametersSet

\* C8: expectation_psi of a Uniform kernel with the constant basis is
\* d * ((mu + a) - (mu - a)) as computed in floating point, d = 1 / (2a); it
\* is exactly 1 for the batch elements whose mu - a, mu + a and 1 / (2a)
\* are computed without rounding, as for mu = 0 and support_size = 2.
C8_UniformUnitMass ==
    (UniformAsked("expectation_psi") /\ last.args = ConstantPsi) =>
        \A b \in Batch, j \in Cols :
            /\ last.res.v.v[b][j] =
                  FMul(Self.density_value.v[b],
                       FSub(FAdd(Self.mu.v[b], Self.a.v[b]),
                            FSub(Self.mu.v[b], Self.a.v[b])))
            /\ NoRounding(Self, b) => last.res.v.v[b][j] = One
            /\ (Self.mu.v[b] = Zero /\ Self.a.v[b] = One) => last.res.v.v[b][j] = One

\* the Uniform kernel with mu = 0 and support_size = 2 returned mass 1
C8_Witness ==
    /\ UniformAsked("expectation_psi") /\ last.args = ConstantPsi
    /\ Self.mu.v[1] = Zero /\ Self.a.v[1] = One /\ Self.density_value.v[1] = <<1, 2>>
    /\ last.res.v.v[1][1] = One

\* C8 as stated: the mass is exactly 1 for every mu and support_size.
C8_AlwaysOne ==
    (UniformAsked("expectation_psi") /\ last.args = ConstantPsi) =>
        \A b \in Batch, j \in Cols : last.res.v.v[b][j] = One

\* a^2/3 + mu^2 of batch element b, as a fraction
SecondMoment(k, b) ==
    RAdd(RDiv(RPow(k.a.v[b], 2), Num(3)), RPow(k.mu.v[b], 2))

\* x is within n roundings of the fraction y: |x - y| <= n 2^(-MantissaBits) |y|
Within(n, x, y) ==
    RLe(Distance(x, y), RMul(<<n, Pow2(MantissaBits)>>, RAbs(y)))

\* C9: the moments of a Uniform kernel.  expectation_t() is mu;
\* expectation_t2() is a^2/3 + mu^2 up to rounding; with the constant basis
\* and correctly rounded primitives, expectation_t_times_psi is mu when
\* mu - a, mu + a, 1/(2a) and 2 a mu are computed without rounding,
\* expectation_t2_times_psi is a^2/3 + mu^2 up to rounding when mu - a and
\* mu + a are computed without rounding, and then g1 of a Sparsemax
\* kernel's attention_gradient is 0.
C9_UniformMoments ==
    /\ UniformAsked("expectation_t") => last.res = Ok(Self.mu)
    /\ UniformAsked("expectation_t2") =>
          \A b \in Batch : Within(5, last.res.v.v[b], SecondMoment(Self, b))
    /\ (UniformAsked("expectation_t_times_psi") /\ last.args = ConstantPsi) =>
          \A b \in Batch, j \in Cols :
              (NoRounding(Self, b)
               /\ Exact(RMul(RMul(Two, Self.a.v[b]), Self.mu.v[b])))
              => last.res.v.v[b][j] = Self.mu.v[b]
    /\ (UniformAsked("expectation_t2_times_psi") /\ last.args = ConstantPsi) =>
          \A b \in Batch, j \in Cols :
              (Exact(RSub(Self.mu.v[b], Self.a.v[b]))
               /\ Exact(RAdd(Self.mu.v[b], Self.a.v[b])))
              => Within(4, last.res.v.v[b][j], SecondMoment(Self, b))
    /\ (/\ last.op = "attention_gradient" /\ last.args = ConstantPsi
        /\ Self.cls = Sparsemax /\ HasEscort) =>
          \A b \in Batch, j \in Cols :
              (NoRounding(Escort, b)
               /\ Exact(RMul(RMul(Two, Escort.a.v[b]), Escort.mu.v[b])))
              => last.res.v.g1.v[b][j] = Zero

\* a Uniform kernel with mu = 1 and a = 1/2 returned E[t psi] = 1 = mu
C9_Witness ==
    /\ UniformAsked("expectation_t_times_psi") /\ last.args = ConstantPsi
    /\ \E b \in Batch :
          /\ Self.mu.v[b] = One /\ Self.a.v[b] = <<1, 2>>
          /\ NoRounding(Self, b) /\ last.res.v.v[b][1] = One

\* C9 as stated: expectation_t_times_psi with the constant basis equals
\* expectation_t() = mu.
C9_MomentsEqual ==
    (UniformAsked("expectation_t_times_psi") /\ last.args = ConstantPsi) =>
        \A b \in Batch, j \in Cols : last.res.v.v[b][j] = Self.mu.v[b]

\* C10: an escort has its parent's mu and support.  Whenever a generic,
\* Sparsemax, Biweight or Triweight kernel holds an escort, the escort's mu
\* is the kernel's mu and twice the escort's half-width is the support size
\* the kernel's distribution object reports.
C10_EscortParameters ==
    (HasEscort /\ Self.cls \in {Base, Sparsemax, Biweight, Triweight}) =>
        /\ Escort.mu = Self.mu
        /\ TScale(FMul, Escort.a, Two) = Distribution_support_size(Self.entmax)

\* a Triweight kernel that held an escort was given new parameters
C10_Witness ==
    /\ SetWithEscort /\ last.had_escort /\ ~last.repeated
    /\ Self.cls = Triweight /\ HasEscort
    /\ Escort.mu = Self.mu /\ Self.mu = last.args.mu

\* the classes whose set_parameters builds an escort when it is asked to
EscortBuilders == {Base, Sparsemax, Biweight, Triweight}

\* the call failed and handed nothing back
Failed(res) == ~res.ok /\ res.err # "" /\ res.v = None

\* C11: attention_gradient returns gradients only when the kernel holds an
\* escort.  A kernel no set_parameters call has reached holds none; after a
\* set_parameters call a generic, Sparsemax, Biweight or Triweight kernel
\* holds one exactly when use_escort was true, and a Uniform kernel, whose
\* set_parameters has no use_escort and builds nothing, never holds one; the
\* calls between two set_parameters calls leave the escort field as it is.
\* On a kernel that is not Gaussian, attention_gradient returns exactly when
\* the kernel holds an escort, and otherwise raises, hands back no g1 or g2
\* and leaves the kernel and its escort as they were; asked of the escort a
\* parent built, it raises in the same way.  So set_parameters with
\* use_escort true makes attention_gradient return again on every class but
\* Uniform, where it raises after every set_parameters call.
C11_GradientNeedsEscort ==
    [][/\ last.op = "__init__" => ~HasEscort
       /\ last'.op = "set_parameters" =>
            /\ Self.cls \in EscortBuilders =>
                  (heap'[1].escort.t = "ref" <=> last'.args.use_escort)
            /\ Self.cls = Uniform => heap'[1].escort = None
       /\ last'.op # "set_parameters" => heap'[1].escort = Self.escort
       /\ (last'.op = "attention_gradient" /\ Self.cls # Gaussian) =>
            /\ last'.res.ok <=> HasEscort
            /\ ~HasEscort => (Failed(last'.res) /\ heap' = heap)
       /\ (last'.op = "_escort.attention_gradient" /\ Self.cls # Gaussian) =>
            (Failed(last'.res) /\ heap' = heap)]_vars

\* attention_gradient raised on a Biweight kernel whose parameters were set
\* without an escort
C11_Witness ==
    /\ last.op = "attention_gradient" /\ Self.cls = Biweight
    /\ ParametersSet /\ ~HasEscort
    /\ last.res = Raise("AttributeError")

\* the statement for every class but Gaussian, Uniform included: the first
\* attention_gradient after a set_parameters call with use_escort true returns
C11_EveryNonGaussian ==
    [][(last.op = "set_parameters" /\ last.args.use_escort /\ Self.cls # Gaussian
        /\ last'.op = "attention_gradient") => last'.res.ok]_vars
====
